---- MODULE Spec2Model ----
(***************************************************************************)
(* Model of src/src/hooks/useFetchAsset/useFetchAsset.tsx:                 *)
(*   - useFetchAsset           (the hook's effect)                         *)
(*   - accountsToPortfolio     (the account-to-portfolio normalizer)       *)
(*   - portfolioApi.getAccounts (queryFn + onCacheEntryAdded) and the      *)
(*     portfolio slice's reducers                                          *)
(*   - selectTotalFiatBalance / selectAssetFiatBalance                     *)
(*   - AssetActions            (send / receive click handlers)             *)
(*                                                                         *)
(* JS strings that the code only passes around are TLA+ strings; strings   *)
(* the code transforms (token contract addresses, lower-cased) are         *)
(* sequences of one-character strings; decimal strings the code parses     *)
(* (balances) are records [num, val]: num = FALSE is a string bignumber.js *)
(* cannot parse (or undefined).                                            *)
(***************************************************************************)
EXTENDS Integers, Sequences, FiniteSets, TLC

VARIABLES
  nArgs,      \* accountsToPortfolio: the argument, as its Object.entries
  nResult,    \* accountsToPortfolio: [done, portfolio], the value returned
  portfolio,  \* the portfolio slice's state (state.portfolio)
  nEntries,   \* getAccounts cache entries created so far (entry e was the e-th)
  qArg,       \* per cache entry: the Pubkeys argument, as its Object.entries
  qStatus,    \* per cache entry: "none" | "pending" | "fulfilled" | "rejected"
  qData,      \* per cache entry: [loaded, entries], getCacheEntry().data
  promises,   \* per cache entry: the running cycle's getAccount promises
  cycles,     \* per cache entry: how many times queryFn was started
  handler,    \* per cache entry: onCacheEntryAdded, "none" | "awaiting" | "dispatched" | "returned"
  stores,     \* history: the cache entries whose handler dispatched setPortfolio, in order
  lastLoaded, \* history: [valid, entries], the data of the last fulfilled query
  sBalances,  \* selectors: state.portfolio.balances.byId
  sAssets,    \* selectors: per asset id, the precision in the assets slice (if any)
  sMarket,    \* selectors: per asset id, the price in the market data slice (if any)
  sTotal,     \* selectors: [called, out], what selectTotalFiatBalance returned
  sFiat,      \* selectors: per asset id [called, out], what selectAssetFiatBalance returned
  isConnected,   \* AssetActions: useWallet().state.isConnected
  sendModal,     \* AssetActions: the send modal, [open, props]
  receiveModal,  \* AssetActions: the receive modal, [open, props]
  walletModal,   \* AssetActions: the wallet provider's modal flag (SET_WALLET_MODAL)
  clicks,        \* AssetActions history: [n, kind], the activations so far and the last one
  hAssets,    \* useFetchAsset: the keys of state.assets
  hProps,     \* useFetchAsset: the hook's argument {chain, tokenId}
  hEffect,    \* useFetchAsset: [pc, present], the effect's progress and what it found
  hDispatched \* useFetchAsset: the fetchAsset actions dispatched, in order

normVars == <<nArgs, nResult>>
fetchVars == <<portfolio, nEntries, qArg, qStatus, qData, promises, cycles, handler,
               stores, lastLoaded>>
selVars == <<sBalances, sAssets, sMarket, sTotal, sFiat>>
uiVars == <<isConnected, sendModal, receiveModal, walletModal, clicks>>
hookVars == <<hAssets, hProps, hEffect, hDispatched>>

\* ------------------------------------------------------------------ bounds
MaxAccounts == 2      \* entries of the map given to accountsToPortfolio
MaxTokens == 2        \* tokens of one Ethereum account
MaxAddresses == 2     \* addresses of one Bitcoin account
MaxEntries == 2       \* getAccounts cache entries (distinct Pubkeys arguments)
MaxRefetches == 1     \* refetches on reconnect, over all cache entries
MaxPrecision == 2     \* largest asset precision drawn
MaxClicks == 3        \* activations of the send / receive buttons
MaxEffects == 2       \* runs of the useFetchAsset effect

\* ------------------------------------------------------------- primitives
Ethereum == "ethereum"
Bitcoin == "bitcoin"
Cosmos == "cosmos"            \* a chain kind the normalizer has no case for
ChainTypes == {Ethereum, Bitcoin, Cosmos}

\* a decimal string holding the natural number n
Str(n) == [num |-> TRUE, val |-> n]
\* undefined, or a string that is no number
NaNStr == [num |-> FALSE, val |-> 0]

\* lib/bignumber bnOrZero: the number a value holds, 0 when it holds none
bnOrZero(s) == IF s.num THEN s.val ELSE 0

\* an optional array: undefined, or the items
Undefined == [present |-> FALSE, items |-> <<>>]
Some(items) == [present |-> TRUE, items |-> items]

\* String.prototype.toLowerCase on the characters the model uses
LowerChar(c) == IF c = "A" THEN "a" ELSE IF c = "B" THEN "b" ELSE c
toLowerCase(s) == [i \in 1..Len(s) |-> LowerChar(s[i])]

\* caip19.toCAIP19({chain, network}): the chain's native asset (slip44)
\* caip19.toCAIP19({chain, network, contractType, tokenId}): a token.
\* The id is kept in parts: "chain:network/ns:ref".
NativeRef(chain) == IF chain = Ethereum THEN <<"6", "0">> ELSE <<"0">>
toCAIP19(chain, network) ==
  [chain |-> chain, network |-> network, ns |-> "slip44", ref |-> NativeRef(chain)]
toCAIP19Token(chain, network, contractType, tokenId) ==
  [chain |-> chain, network |-> network, ns |-> contractType, ref |-> tokenId]
\* .toLowerCase() of a whole asset id: chain, network and namespace parts are
\* lower case already, the reference is what changes
caip19ToLowerCase(id) == [id EXCEPT !.ref = toLowerCase(id.ref)]

\* obj[key] = value on a JS object (a new key is added, an old one overwritten)
Put(obj, key, value) ==
  [k \in DOMAIN obj \cup {key} |-> IF k = key THEN value ELSE obj[k]]

\* ------------------------------------------------ portfolio slice (62-80)
initialState ==
  [accounts |-> [byId |-> <<>>, ids |-> <<>>],
   balances |-> [byId |-> <<>>, ids |-> <<>>]]

\* ------------------------------------------- accountsToPortfolio (90-139)
\* portfolio.accounts.byId[CAIP10].push(asset); portfolio.balances.ids.push(asset);
\* portfolio.balances.byId[asset] = balance
RecordAssetNoBalance(p, CAIP10, asset, balance) ==
  [accounts |-> [byId |-> Put(p.accounts.byId, CAIP10, Append(p.accounts.byId[CAIP10], asset)),
                 ids |-> p.accounts.ids],
   balances |-> [byId |-> p.balances.byId,
                 ids |-> Append(p.balances.ids, asset)]]
RecordAsset(p, CAIP10, asset, balance) ==
  [accounts |-> [byId |-> Put(p.accounts.byId, CAIP10, Append(p.accounts.byId[CAIP10], asset)),
                 ids |-> p.accounts.ids],
   balances |-> [byId |-> Put(p.balances.byId, asset, balance),
                 ids |-> Append(p.balances.ids, asset)]]

\* tokens.forEach(token => ...), lines 106-114
RECURSIVE TokensForEach(_, _, _, _, _)
TokensForEach(p, CAIP10, chain, network, tokens) ==
  IF tokens = <<>> THEN p
  ELSE LET token == Head(tokens)
           tokenCAIP19 == caip19ToLowerCase(
                            toCAIP19Token(chain, network, token.contractType, token.contract))
       IN TokensForEach(RecordAsset(p, CAIP10, tokenCAIP19, token.balance),
                        CAIP10, chain, network, Tail(tokens))

\* case ChainTypes.Ethereum, lines 98-116
EthereumCase(p, CAIP10, account) ==
  LET ethCAIP19 == toCAIP19(account.chain, account.network)
      p1 == RecordAsset(p, CAIP10, ethCAIP19, account.balance)
  IN IF ~account.tokens.present THEN p1
     ELSE TokensForEach(p1, CAIP10, account.chain, account.network, account.tokens.items)

\* addresses.reduce((acc, cur) => acc.plus(bnOrZero(cur.balance)), bn(0)), line 122
RECURSIVE totalSats(_)
totalSats(addresses) ==
  IF addresses = <<>> THEN 0
  ELSE bnOrZero(Head(addresses).balance) + totalSats(Tail(addresses))

\* case ChainTypes.Bitcoin, lines 117-132
BitcoinCaseNoBalance(p, CAIP10, account) ==
  RecordAssetNoBalance(p, CAIP10, toCAIP19(account.chain, account.network), NaNStr)
BitcoinCase(p, CAIP10, account) ==
  LET btcCAIP19 == toCAIP19(account.chain, account.network)
      addresses == IF account.addresses.present THEN account.addresses.items ELSE <<>>
      balance == Str(totalSats(addresses))
  IN RecordAsset(p, CAIP10, btcCAIP19, balance)

\* the body of Object.entries(args).forEach, lines 93-136
AccountStep(p, CAIP10, account) ==
  LET p0 == [accounts |-> [byId |-> Put(p.accounts.byId, CAIP10, <<>>),
                           ids |-> Append(p.accounts.ids, CAIP10)],
             balances |-> p.balances]
  IN CASE account.chain = Ethereum -> EthereumCase(p0, CAIP10, account)
       [] account.chain = Bitcoin -> BitcoinCase(p0, CAIP10, account)
       [] OTHER -> p0

\* args is the JS object as its Object.entries: a sequence of [key, account]
\* with distinct keys, in insertion order
RECURSIVE EntriesForEach(_, _)
EntriesForEach(p, entries) ==
  IF entries = <<>> THEN p
  ELSE EntriesForEach(AccountStep(p, Head(entries).key, Head(entries).account), Tail(entries))

accountsToPortfolio(args) == EntriesForEach(initialState, args)

\* ---- inputs of accountsToPortfolio
\* caip10.toCAIP10({caip2, account}): "chain:network:pubkey", kept in parts
toCAIP10(chain, network, pubkey) == [chain |-> chain, network |-> network, pubkey |-> pubkey]

SeqsUpTo(S, n) == UNION {[1..k -> S] : k \in 0..n}

TokenContracts == {<<"a">>, <<"A">>, <<"b">>}
TokenInputs == [contractType : {"erc20"}, contract : TokenContracts, balance : {Str(7)}]
AddressInputs == [balance : {NaNStr, Str(100)}]

\* chainAdapters.Account<ChainTypes>, with chainSpecific's fields flattened
Account(chain, network, pubkey, balance, tokens, addresses) ==
  [chain |-> chain, network |-> network, pubkey |-> pubkey, balance |-> balance,
   tokens |-> tokens, addresses |-> addresses]

OptSeqs(S, n) == {Undefined} \cup {Some(s) : s \in SeqsUpTo(S, n)}

\* the accounts drawn, before their public key is filled in
AccountInputs ==
  {Account(Ethereum, "MAINNET", <<>>, Str(5), t, Undefined) :
     t \in OptSeqs(TokenInputs, MaxTokens)}
  \cup {Account(Bitcoin, "MAINNET", <<>>, Str(0), Undefined, a) :
     a \in OptSeqs(AddressInputs, MaxAddresses)}
  \cup {Account(Cosmos, "MAINNET", <<>>, Str(3), Undefined, Undefined)}

RECURSIVE PubkeyName(_)
PubkeyName(i) == IF i = 1 THEN <<"p">> ELSE Append(PubkeyName(i - 1), "p")

\* the i-th entry is keyed by the CAIP10 of its own account; public keys differ
\* from entry to entry, so the keys of the object are distinct
ArgsFrom(accts) ==
  [i \in 1..Len(accts) |->
     LET a == [accts[i] EXCEPT !.pubkey = PubkeyName(i)]
     IN [key |-> toCAIP10(a.chain, a.network, a.pubkey), account |-> a]]

NoResult == [done |-> FALSE, portfolio |-> initialState]

NormInit ==
  /\ \E k \in 0..MaxAccounts : \E accts \in [1..k -> AccountInputs] : nArgs = ArgsFrom(accts)
  /\ nResult = NoResult

\* a call of accountsToPortfolio(args)
Normalize ==
  /\ ~nResult.done
  /\ nResult' = [done |-> TRUE, portfolio |-> accountsToPortfolio(nArgs)]
  /\ UNCHANGED nArgs

\* ------------------------------------ portfolioApi.getAccounts (141-193)
\* The Pubkeys of a wallet: one public key per chain namespace (CAIP2). The
\* arguments drawn: no key yet, an Ethereum-only wallet, a wallet of three
\* chains of which one has no adapter.
CAIP2(chain, network) == [chain |-> chain, network |-> network]
WalletPubkeys ==
  << [caip2 |-> CAIP2(Ethereum, "MAINNET"), pubkey |-> PubkeyName(1)],
     [caip2 |-> CAIP2(Bitcoin, "MAINNET"), pubkey |-> PubkeyName(2)],
     [caip2 |-> CAIP2(Cosmos, "MAINNET"), pubkey |-> PubkeyName(3)] >>
PubkeyMaps == {SubSeq(WalletPubkeys, 1, k) : k \in {0, 1, Len(WalletPubkeys)}}

\* the chains getChainAdapters() has an adapter for (ALLOWED_CHAINS, lines 7-10)
AdapterChains == {Ethereum, Bitcoin}

\* what chainAdapters.byChain(chain).getAccount(pubkey) may resolve to
Responses(pk) ==
  IF pk.caip2.chain = Ethereum
  THEN {Account(Ethereum, pk.caip2.network, pk.pubkey, Str(5), t, Undefined) :
          t \in {Undefined, Some(<<[contractType |-> "erc20", contract |-> <<"A">>,
                                    balance |-> Str(7)]>>)}}
  ELSE {Account(pk.caip2.chain, pk.caip2.network, pk.pubkey, Str(0), Undefined,
                Some(<<[balance |-> Str(100)]>>))}

NoAccount == Account("", "", <<>>, NaNStr, Undefined, Undefined)
Pending == [status |-> "pending", value |-> NoAccount]
Rejected == [status |-> "rejected", value |-> NoAccount]
Fulfilled(account) == [status |-> "fulfilled", value |-> account]

\* lines 156-160: the async callback of pubkeys.map. caip2.fromCAIP2 and
\* byChain run before the first await: without an adapter for the chain the
\* callback throws and its promise is rejected at once.
IssueRequest(pk) == IF pk.caip2.chain \in AdapterChains THEN Pending ELSE Rejected
IssueAll(pubkeys) == [i \in 1..Len(pubkeys) |-> IssueRequest(pubkeys[i])]

\* line 163, await Promise.allSettled(promises): [ready, threw]
\* Promise.all instead: rejects with the first rejection
PromiseAll(ps) ==
  IF \E i \in 1..Len(ps) : ps[i].status = "rejected" THEN [ready |-> TRUE, threw |-> TRUE]
  ELSE [ready |-> \A i \in 1..Len(ps) : ps[i].status = "fulfilled", threw |-> FALSE]
\* Promise.race-like: resumes with the first settlement
PromiseFirstSettled(ps) ==
  [ready |-> ps = <<>> \/ \E i \in 1..Len(ps) : ps[i].status # "pending", threw |-> FALSE]
PromiseAllSettled(ps) ==
  [ready |-> \A i \in 1..Len(ps) : ps[i].status # "pending", threw |-> FALSE]

\* acc[CAIP10] = cur.value on the object acc, kept as its Object.entries
PutEntry(entries, key, account) ==
  IF \E i \in 1..Len(entries) : entries[i].key = key
  THEN [i \in 1..Len(entries) |->
          IF entries[i].key = key THEN [key |-> key, account |-> account] ELSE entries[i]]
  ELSE Append(entries, [key |-> key, account |-> account])

\* lines 165-175: maybeAccounts.reduce(..., {})
RECURSIVE maybeAccountsReduce(_, _)
maybeAccountsReduce(acc, maybeAccounts) ==
  IF maybeAccounts = <<>> THEN acc
  ELSE LET cur == Head(maybeAccounts)
       IN IF cur.status = "fulfilled"
          THEN maybeAccountsReduce(
                 PutEntry(acc, toCAIP10(cur.value.chain, cur.value.network, cur.value.pubkey),
                          cur.value),
                 Tail(maybeAccounts))
          ELSE maybeAccountsReduce(acc, Tail(maybeAccounts))

NoData == [loaded |-> FALSE, entries |-> <<>>]
Data(entries) == [loaded |-> TRUE, entries |-> entries]

Entries == 1..MaxEntries

\* Continuations of resolved promises are microtasks: they run before the next
\* task (a network response, a reconnect, a dispatch from the UI) starts.
QueryFnReady(e) == qStatus[e] = "pending" /\ PromiseAllSettled(promises[e]).ready
HandlerReady(e) == handler[e] = "awaiting" /\ qData[e].loaded
MicrotaskPending == \E e \in Entries : QueryFnReady(e) \/ HandlerReady(e)

FetchInit ==
  /\ portfolio = initialState
  /\ nEntries = 0
  /\ qArg = [e \in Entries |-> <<>>]
  /\ qStatus = [e \in Entries |-> "none"]
  /\ qData = [e \in Entries |-> NoData]
  /\ promises = [e \in Entries |-> <<>>]
  /\ cycles = [e \in Entries |-> 0]
  /\ handler = [e \in Entries |-> "none"]
  /\ stores = <<>>
  /\ lastLoaded = [valid |-> FALSE, entries |-> <<>>]

\* lines 151-160, the start of queryFn: what it has issued when it first awaits
StartQueryFn(pubkeys) == IF pubkeys = <<>> THEN <<>> ELSE IssueAll(pubkeys)

\* useGetAccountsQuery(pubkeys) with an argument that has no cache entry yet:
\* RTK Query adds the entry, starts queryFn and calls onCacheEntryAdded, which
\* runs to its await of cacheDataLoaded (line 184).
Initiate(pubkeys) ==
  /\ ~MicrotaskPending
  /\ nEntries < MaxEntries
  /\ \A e \in 1..nEntries : qArg[e] # pubkeys
  /\ LET e == nEntries + 1
     IN /\ nEntries' = e
        /\ qArg' = [qArg EXCEPT ![e] = pubkeys]
        /\ qStatus' = [qStatus EXCEPT ![e] = "pending"]
        /\ promises' = [promises EXCEPT ![e] = StartQueryFn(pubkeys)]
        /\ cycles' = [cycles EXCEPT ![e] = 1]
        /\ handler' = [handler EXCEPT ![e] = "awaiting"]
  /\ UNCHANGED <<portfolio, qData, stores, lastLoaded>>

\* one getAccount promise settles: the adapter's response, or a rejection
Settle(e, i, outcome) ==
  /\ ~MicrotaskPending
  /\ e \in 1..nEntries
  /\ i \in 1..Len(promises[e])
  /\ promises[e][i].status = "pending"
  /\ promises' = [promises EXCEPT ![e][i] = outcome]
  /\ UNCHANGED <<portfolio, nEntries, qArg, qStatus, qData, cycles, handler, stores,
                 lastLoaded>>

\* lines 163-176, the rest of queryFn once the await resumes. A {data} result
\* fulfils the query and resolves cacheDataLoaded; a throw rejects the query.
QueryFnReturn(e) ==
  /\ qStatus[e] = "pending"
  /\ PromiseAllSettled(promises[e]).ready
  /\ IF PromiseAllSettled(promises[e]).threw
     THEN /\ qStatus' = [qStatus EXCEPT ![e] = "rejected"]
          /\ UNCHANGED <<qData, lastLoaded>>
     ELSE LET data == maybeAccountsReduce(<<>>, promises[e])
          IN /\ qStatus' = [qStatus EXCEPT ![e] = "fulfilled"]
             /\ qData' = [qData EXCEPT ![e] = Data(data)]
             /\ lastLoaded' = [valid |-> TRUE, entries |-> data]
  /\ UNCHANGED <<portfolio, nEntries, qArg, promises, cycles, handler, stores>>

\* lines 186-189, onCacheEntryAdded after `await cacheDataLoaded`.
\* A handler that drops a result once a newer cache entry has stored its own:
CacheEntryHandlerLatestOnly(e) ==
  /\ HandlerReady(e)
  /\ IF \E i \in 1..Len(stores) : stores[i] > e
     THEN /\ handler' = [handler EXCEPT ![e] = "returned"]
          /\ UNCHANGED <<portfolio, stores>>
     ELSE /\ handler' = [handler EXCEPT ![e] = "dispatched"]
          /\ portfolio' = accountsToPortfolio(qData[e].entries)
          /\ stores' = Append(stores, e)
  /\ UNCHANGED <<nEntries, qArg, qStatus, qData, promises, cycles, lastLoaded>>
CacheEntryHandler(e) ==
  /\ HandlerReady(e)
  /\ LET account == qData[e]
     IN IF ~account.loaded
        THEN /\ handler' = [handler EXCEPT ![e] = "returned"]
             /\ UNCHANGED <<portfolio, stores>>
        ELSE /\ handler' = [handler EXCEPT ![e] = "dispatched"]
             \* setPortfolio: (_state, {payload}) => payload, line 78
             /\ portfolio' = accountsToPortfolio(account.entries)
             /\ stores' = Append(stores, e)
  /\ UNCHANGED <<nEntries, qArg, qStatus, qData, promises, cycles, lastLoaded>>

RECURSIVE SumTo(_, _)
SumTo(f, n) == IF n = 0 THEN 0 ELSE f[n] + SumTo(f, n - 1)
\* the runs of queryFn that were refetches
Refetches == SumTo(cycles, MaxEntries) - nEntries

\* refetchOnReconnect: true (line 146): on regained connectivity RTK Query
\* starts queryFn again for a cache entry that is not already fetching. The
\* entry exists already, so onCacheEntryAdded is not called again.
OnReconnect(e) ==
  /\ ~MicrotaskPending
  /\ qStatus[e] \in {"fulfilled", "rejected"}
  /\ Refetches < MaxRefetches
  /\ qStatus' = [qStatus EXCEPT ![e] = "pending"]
  /\ promises' = [promises EXCEPT ![e] = StartQueryFn(qArg[e])]
  /\ cycles' = [cycles EXCEPT ![e] = cycles[e] + 1]
  /\ UNCHANGED <<portfolio, nEntries, qArg, qData, handler, stores, lastLoaded>>

\* clearPortfolio: () => initialState, line 77
ClearPortfolio ==
  /\ ~MicrotaskPending
  /\ portfolio # initialState
  /\ portfolio' = initialState
  /\ lastLoaded' = [valid |-> FALSE, entries |-> <<>>]
  /\ UNCHANGED <<nEntries, qArg, qStatus, qData, promises, cycles, handler, stores>>

NormIdle == nArgs = <<>> /\ nResult = NoResult

\* ------------------------------------------------- selectors (203-245)
\* A BigNumber is coef * 10^-exp, exactly.
RECURSIVE Pow10(_)
Pow10(n) == IF n = 0 THEN 1 ELSE 10 * Pow10(n - 1)
Max(a, b) == IF a > b THEN a ELSE b
bn(coef, exp) == [coef |-> coef, exp |-> exp]
plus(x, y) ==
  LET e == Max(x.exp, y.exp)
  IN bn(x.coef * Pow10(e - x.exp) + y.coef * Pow10(e - y.exp), e)
times(x, y) == bn(x.coef * y.coef, x.exp + y.exp)
\* the value in hundredths, rounded half up (bignumber.js' default rounding
\* mode, used by decimalPlaces(2) and toFixed(2)); values here are >= 0
RoundToCents(x) ==
  IF x.exp <= 2 THEN x.coef * Pow10(2 - x.exp)
  ELSE (2 * x.coef + Pow10(x.exp - 2)) \div (2 * Pow10(x.exp - 2))

\* BigNumber.toFixed(2): a string with exactly two decimals
toFixed2(x) ==
  LET c == RoundToCents(x)
  IN [whole |-> c \div 100, decimals |-> <<(c % 100) \div 10, c % 10>>]
\* the string '0'
ZeroString == [whole |-> 0, decimals |-> <<>>]
\* BigNumber.decimalPlaces(2).toNumber(): a number, here counted in hundredths
toNumber2(x) == RoundToCents(x)

\* lib/math fromBaseUnit(value, precision): the value divided by 10^precision
fromBaseUnit(value, precision) == bn(bnOrZero(value), precision)

\* an optional value of the store: obj[key]?.field
Unknown == [known |-> FALSE, val |-> 0]
Known(v) == [known |-> TRUE, val |-> v]
\* JS truthiness of an optional number: undefined and 0 are falsy
TruthyNumber(o) == o.known /\ o.val # 0
\* JS truthiness of an optional, non-empty string
TruthyString(o) == o.known

\* cryptoBalances[CAIP19]: undefined when the asset holds no balance
BalanceOf(cryptoBalances, id) ==
  IF id \in DOMAIN cryptoBalances THEN cryptoBalances[id] ELSE NaNStr

\* a price string "d.dd", held as its number of hundredths
PriceBn(price) == bn(price.val, 2)

\* lines 218-228: Object.entries(cryptoBalances).reduce(..., bn(0))
RECURSIVE TotalReduce(_, _, _, _, _)
TotalReduce(acc, ids, assets, marketData, cryptoBalances) ==
  IF ids = {} THEN acc
  ELSE LET id == CHOOSE x \in ids : TRUE
           precision == assets[id]
           price == marketData[id]
           rest == ids \ {id}
       IN IF ~TruthyString(price) \/ ~TruthyNumber(precision)
          THEN TotalReduce(acc, rest, assets, marketData, cryptoBalances)
          ELSE LET cryptoValue == fromBaseUnit(cryptoBalances[id], precision.val)
                   assetFiatBalance == times(cryptoValue, PriceBn(price))
               IN TotalReduce(plus(acc, assetFiatBalance), rest, assets, marketData,
                              cryptoBalances)

\* a total that adds up the per-asset values as displayed (each rounded first)
RECURSIVE TotalReduceRounded(_, _, _, _, _)
TotalReduceRounded(acc, ids, assets, marketData, cryptoBalances) ==
  IF ids = {} THEN acc
  ELSE LET id == CHOOSE x \in ids : TRUE
           rest == ids \ {id}
       IN IF ~TruthyString(marketData[id]) \/ ~TruthyNumber(assets[id])
          THEN TotalReduceRounded(acc, rest, assets, marketData, cryptoBalances)
          ELSE TotalReduceRounded(
                 plus(acc, bn(RoundToCents(times(fromBaseUnit(cryptoBalances[id], assets[id].val),
                                                 PriceBn(marketData[id]))), 2)),
                 rest, assets, marketData, cryptoBalances)
selectTotalFiatBalanceRounded(assets, marketData, cryptoBalances) ==
  toNumber2(TotalReduceRounded(bn(0, 0), DOMAIN cryptoBalances, assets, marketData,
                               cryptoBalances))

\* selectTotalFiatBalance, lines 213-231
selectTotalFiatBalance(assets, marketData, cryptoBalances) ==
  toNumber2(TotalReduce(bn(0, 0), DOMAIN cryptoBalances, assets, marketData, cryptoBalances))

\* selectAssetFiatBalance, lines 233-245
selectAssetFiatBalance(assets, marketData, cryptoBalances, CAIP19) ==
  LET balance == BalanceOf(cryptoBalances, CAIP19)
      precision == assets[CAIP19]
      price == marketData[CAIP19]
  IN IF ~TruthyString(price) \/ ~TruthyNumber(precision) THEN ZeroString
     ELSE toFixed2(times(fromBaseUnit(balance, precision.val), PriceBn(price)))

\* ---- the store the selectors read
SelAssetIds == {toCAIP19(Ethereum, "MAINNET"), toCAIP19(Bitcoin, "MAINNET")}
SelBalances == {Str(1), Str(150)}
SelPrices == {Known(50), Known(200)}
SelPrecisions == {Known(p) : p \in 0..MaxPrecision}

NotCalled == [called |-> FALSE, out |-> ZeroString]

SelInit ==
  /\ \E held \in SUBSET SelAssetIds : sBalances \in [held -> SelBalances]
  /\ sAssets \in [SelAssetIds -> {Unknown} \cup SelPrecisions]
  /\ sMarket \in [SelAssetIds -> {Unknown} \cup SelPrices]
  /\ sTotal = [called |-> FALSE, out |-> 0]
  /\ sFiat = [id \in SelAssetIds |-> NotCalled]

CallSelectTotalFiatBalance ==
  /\ ~sTotal.called
  /\ sTotal' = [called |-> TRUE, out |-> selectTotalFiatBalance(sAssets, sMarket, sBalances)]
  /\ UNCHANGED <<sBalances, sAssets, sMarket, sFiat>>

CallSelectAssetFiatBalance(id) ==
  /\ ~sFiat[id].called
  /\ sFiat' = [sFiat EXCEPT ![id] =
                 [called |-> TRUE, out |-> selectAssetFiatBalance(sAssets, sMarket, sBalances, id)]]
  /\ UNCHANGED <<sBalances, sAssets, sMarket, sTotal>>

SelIdle ==
  /\ sBalances = <<>>
  /\ sAssets = [id \in SelAssetIds |-> Unknown]
  /\ sMarket = [id \in SelAssetIds |-> Unknown]
  /\ sTotal = [called |-> FALSE, out |-> 0]
  /\ sFiat = [id \in SelAssetIds |-> NotCalled]

\* ------------------------------------------------ claims: the normalizer
SeqToSet(s) == {s[i] : i \in 1..Len(s)}
NoDuplicates(s) == \A i, j \in 1..Len(s) : s[i] = s[j] => i = j

\* C1: in every Portfolio accountsToPortfolio returns, each asset id in any
\* accounts.byId[account] list is a key of balances.byId.
C1_AccountAssetsHaveBalances ==
  nResult.done =>
    \A a \in DOMAIN nResult.portfolio.accounts.byId :
      SeqToSet(nResult.portfolio.accounts.byId[a]) \subseteq DOMAIN nResult.portfolio.balances.byId

\* an Ethereum account with two tokens next to a Bitcoin account, normalized
C1_Witness ==
  /\ nResult.done
  /\ Len(nArgs) = 2
  /\ \E i, j \in 1..2 :
       /\ nArgs[i].account.chain = Ethereum
       /\ nArgs[i].account.tokens.present
       /\ Len(nArgs[i].account.tokens.items) = 2
       /\ Len(nResult.portfolio.accounts.byId[nArgs[i].key]) = 3
       /\ nArgs[j].account.chain = Bitcoin
       /\ Len(nResult.portfolio.accounts.byId[nArgs[j].key]) = 1

\* C7: balances.ids of every returned Portfolio lists each asset id at most
\* once and lists exactly the keys of balances.byId.
C7_BalanceIdsIsSet ==
  nResult.done =>
    /\ NoDuplicates(nResult.portfolio.balances.ids)
    /\ SeqToSet(nResult.portfolio.balances.ids) = DOMAIN nResult.portfolio.balances.byId

\* --------------------------------------------- claims: the fetch cycles
FulfilledAt(ps) == {i \in 1..Len(ps) : ps[i].status = "fulfilled"}
RejectedAt(ps) == {i \in 1..Len(ps) : ps[i].status = "rejected"}
AccountKey(a) == toCAIP10(a.chain, a.network, a.pubkey)
RequestedKey(pk) == toCAIP10(pk.caip2.chain, pk.caip2.network, pk.pubkey)
KeysOf(entries) == {entries[i].key : i \in 1..Len(entries)}

\* C2: for a non-empty public-key map the query never ends in an error; when
\* it has ended every request of the cycle has settled, and its data holds
\* exactly the accounts of the fulfilled requests, none of a rejected one.
C2_PartialFailuresDropped ==
  \A e \in Entries :
    (qArg[e] # <<>> /\ qStatus[e] \in {"fulfilled", "rejected"}) =>
      /\ qStatus[e] = "fulfilled"
      /\ Len(promises[e]) = Len(qArg[e])
      /\ \A i \in 1..Len(promises[e]) : promises[e][i].status # "pending"
      /\ KeysOf(qData[e].entries) = {AccountKey(promises[e][i].value) : i \in FulfilledAt(promises[e])}
      /\ Len(qData[e].entries) = Cardinality(FulfilledAt(promises[e]))
      /\ \A i \in FulfilledAt(promises[e]) :
           \E j \in 1..Len(qData[e].entries) :
             qData[e].entries[j] = [key |-> AccountKey(promises[e][i].value),
                                    account |-> promises[e][i].value]
      /\ \A i \in RejectedAt(promises[e]) : RequestedKey(qArg[e][i]) \notin KeysOf(qData[e].entries)

\* a query over three chains that ended with one request fulfilled, one
\* rejected by the adapter and one rejected while selecting the adapter
C2_Witness ==
  \E e \in Entries :
    /\ Len(qArg[e]) = 3
    /\ qStatus[e] = "fulfilled"
    /\ promises[e][1].status = "rejected"
    /\ promises[e][2].status = "fulfilled"
    /\ promises[e][3].status = "rejected"
    /\ Len(qData[e].entries) = 1

Dispatches(e) == handler[e] = "awaiting" /\ handler'[e] = "dispatched"

\* C3: setPortfolio is dispatched for a cache entry only when every getAccount
\* request of its cycle has settled, with a payload that holds the account of
\* each fulfilled one; the stored portfolio changes at no other moment, except
\* to be cleared.
C3_StoredAfterAllSettled ==
  [][/\ \A e \in Entries :
          Dispatches(e) =>
            /\ Len(promises[e]) = Len(qArg[e])
            /\ \A i \in 1..Len(promises[e]) : promises[e][i].status # "pending"
            /\ \A i \in FulfilledAt(promises[e]) :
                 AccountKey(promises[e][i].value) \in SeqToSet(portfolio'.accounts.ids)
     /\ portfolio' # portfolio =>
          (portfolio' = initialState \/ \E e \in Entries : Dispatches(e))]_fetchVars

\* the portfolio of a cycle of three requests, stored after the last settled
C3_Witness ==
  \E e \in Entries :
    /\ handler[e] = "dispatched"
    /\ cycles[e] = 1
    /\ Len(promises[e]) = 3
    /\ Cardinality(FulfilledAt(promises[e])) = 2
    /\ portfolio = accountsToPortfolio(qData[e].entries)
    /\ Len(portfolio.accounts.ids) = 2

\* C4: after every fulfilled getAccounts query, a refetch on reconnect
\* included, the stored portfolio is accountsToPortfolio of that query's data
\* (once the continuations the fulfilment woke have run).
C4_RecomputedEachCycle ==
  (lastLoaded.valid /\ ~MicrotaskPending) =>
    portfolio = accountsToPortfolio(lastLoaded.entries)

\* C9: a handler that resumes stores the normalization of its own cache
\* entry's data whatever has been stored since it started waiting: a result
\* of an older cycle is not dropped in favour of a newer cycle's.
C9_StaleResultStored ==
  [][\A e \in Entries :
       (HandlerReady(e) /\ handler'[e] # handler[e]) =>
         portfolio' = accountsToPortfolio(qData[e].entries)]_fetchVars

\* the cycle started second stored first, the cycle started first stored last:
\* the stored portfolio is the normalization of the older cycle's result
C9_Witness ==
  /\ Len(stores) = 2
  /\ stores[1] = 2 /\ stores[2] = 1
  /\ cycles[1] = 1 /\ cycles[2] = 1
  /\ portfolio = accountsToPortfolio(qData[1].entries)
  /\ portfolio # accountsToPortfolio(qData[2].entries)

\* ------------------------------------------------ claims: the selectors
AllCalled == sTotal.called /\ \A id \in DOMAIN sBalances : sFiat[id].called

\* the number a string returned by selectAssetFiatBalance reads as, in hundredths
FiatNumber(out) ==
  out.whole * 100 + (IF out.decimals = <<>> THEN 0 ELSE out.decimals[1] * 10 + out.decimals[2])

RECURSIVE SumOver(_, _)
SumOver(ids, f) ==
  IF ids = {} THEN 0
  ELSE LET id == CHOOSE x \in ids : TRUE IN f[id] + SumOver(ids \ {id}, f)

\* balance / 10^precision * price of a held asset, in units of
\* 10^-(MaxPrecision + 2); 0 for an asset selectAssetFiatBalance answers '0' for
ExactFiat(id) ==
  IF sFiat[id].out = ZeroString THEN 0
  ELSE bnOrZero(sBalances[id]) * Pow10(MaxPrecision - sAssets[id].val) * sMarket[id].val
HalfUp(n, unit) == (2 * n + unit) \div (2 * unit)

\* C5, as claimed: the total is the sum, over the assets holding a balance,
\* of the values selectAssetFiatBalance reports, rounded to 2 decimals.
C5_TotalIsSumOfReported ==
  AllCalled =>
    sTotal.out = HalfUp(SumOver(DOMAIN sBalances,
                                [id \in DOMAIN sBalances |-> FiatNumber(sFiat[id].out)]), 1)

\* C5, amended: the total is the sum, over the assets holding a balance, of
\* the unrounded values balance / 10^precision * price, rounded once (half up)
\* to 2 decimals; an asset selectAssetFiatBalance answers '0' for adds 0.
C5_TotalIsRoundedExactSum ==
  AllCalled =>
    sTotal.out = HalfUp(SumOver(DOMAIN sBalances, [id \in DOMAIN sBalances |-> ExactFiat(id)]),
                        Pow10(MaxPrecision))

\* two held assets worth half a cent each: reported 0.01 and 0.01, total 0.01
C5_Witness ==
  /\ AllCalled
  /\ DOMAIN sBalances = SelAssetIds
  /\ \A id \in SelAssetIds : sFiat[id].out # ZeroString /\ FiatNumber(sFiat[id].out) = 1
  /\ sTotal.out = 1

\* C6: selectAssetFiatBalance returns balance / 10^precision * price to 2
\* decimals whenever price and precision are both known (precision 0
\* included), and '0' exactly when one of them is unknown.
C6_AssetFiatBalance ==
  \A id \in SelAssetIds :
    sFiat[id].called =>
      IF sMarket[id].known /\ sAssets[id].known
      THEN LET c == HalfUp(bnOrZero(BalanceOf(sBalances, id)) * sMarket[id].val,
                           Pow10(sAssets[id].val))
           IN sFiat[id].out = [whole |-> c \div 100, decimals |-> <<(c % 100) \div 10, c % 10>>]
      ELSE sFiat[id].out = ZeroString

\* ---------------------------------------------- AssetActions (279-293)
\* selectAssetByCAIP19(state, assetId): the asset of the store, if it has it
UiAssetIds == {"eip155:1/slip44:60", "eip155:1/erc20:0xa"}
UiStoreAssets == {"eip155:1/slip44:60"}
UiAccountIds == {"", "eip155:1:0xp"}     \* "" stands for no accountId prop
selectAssetByCAIP19(assetId) ==
  IF assetId \in UiStoreAssets THEN [defined |-> TRUE, caip19 |-> assetId]
  ELSE [defined |-> FALSE, caip19 |-> ""]

Closed == [open |-> FALSE, props |-> [asset |-> selectAssetByCAIP19(""), accountId |-> ""]]
Open(asset, accountId) == [open |-> TRUE, props |-> [asset |-> asset, accountId |-> accountId]]

UiInit ==
  /\ isConnected \in BOOLEAN
  /\ sendModal = Closed
  /\ receiveModal = Closed
  /\ walletModal = FALSE
  /\ clicks = [n |-> 0, kind |-> "none", assetId |-> "", accountId |-> ""]

\* line 288: dispatch({type: SET_WALLET_MODAL, payload: true})
handleWalletModalOpen ==
  /\ walletModal' = TRUE
  /\ UNCHANGED <<sendModal, receiveModal>>

\* line 290
handleSendClickInverted(assetId, accountId) ==
  /\ clicks.n < MaxClicks
  /\ clicks' = [n |-> clicks.n + 1, kind |-> "send", assetId |-> assetId, accountId |-> accountId]
  /\ IF ~isConnected
     THEN /\ sendModal' = Open(selectAssetByCAIP19(assetId), accountId)
          /\ UNCHANGED <<receiveModal, walletModal>>
     ELSE handleWalletModalOpen
  /\ UNCHANGED isConnected
handleSendClick(assetId, accountId) ==
  /\ clicks.n < MaxClicks
  /\ clicks' = [n |-> clicks.n + 1, kind |-> "send", assetId |-> assetId, accountId |-> accountId]
  /\ IF isConnected
     THEN /\ sendModal' = Open(selectAssetByCAIP19(assetId), accountId)
          /\ UNCHANGED <<receiveModal, walletModal>>
     ELSE handleWalletModalOpen
  /\ UNCHANGED isConnected

\* line 292
handleReceiveClick(assetId, accountId) ==
  /\ clicks.n < MaxClicks
  /\ clicks' = [n |-> clicks.n + 1, kind |-> "receive", assetId |-> assetId,
                accountId |-> accountId]
  /\ IF isConnected
     THEN /\ receiveModal' = Open(selectAssetByCAIP19(assetId), accountId)
          /\ UNCHANGED <<sendModal, walletModal>>
     ELSE handleWalletModalOpen
  /\ UNCHANGED isConnected

\* the wallet provider connects or disconnects the wallet
SetIsConnected(b) ==
  /\ isConnected # b
  /\ isConnected' = b
  /\ UNCHANGED <<sendModal, receiveModal, walletModal, clicks>>

\* the user closes what is open
CloseModals ==
  /\ sendModal.open \/ receiveModal.open \/ walletModal
  /\ sendModal' = Closed /\ receiveModal' = Closed /\ walletModal' = FALSE
  /\ UNCHANGED <<isConnected, clicks>>

UiIdle ==
  /\ isConnected = FALSE
  /\ sendModal = Closed
  /\ receiveModal = Closed
  /\ walletModal = FALSE
  /\ clicks = [n |-> 0, kind |-> "none", assetId |-> "", accountId |-> ""]

\* C8: an activation of send (receive) while connected opens the send
\* (receive) modal with the asset and the account id and leaves the other
\* modal and the wallet prompt alone; while not connected it opens the wallet
\* prompt and leaves both modals alone.
C8_ClickOpensModalOrPrompt ==
  [][clicks'.n # clicks.n =>
       LET wanted == Open(selectAssetByCAIP19(clicks'.assetId), clicks'.accountId)
       IN IF isConnected
          THEN /\ walletModal' = walletModal
               /\ clicks'.kind = "send" => (sendModal' = wanted /\ receiveModal' = receiveModal)
               /\ clicks'.kind = "receive" => (receiveModal' = wanted /\ sendModal' = sendModal)
          ELSE /\ walletModal' = TRUE
               /\ sendModal' = sendModal
               /\ receiveModal' = receiveModal]_uiVars

\* send was activated while connected with nothing open: the send modal alone is open
C8_WitnessSend ==
  /\ clicks.kind = "send" /\ isConnected
  /\ sendModal = Open(selectAssetByCAIP19(clicks.assetId), clicks.accountId)
  /\ clicks.accountId # ""
  /\ ~receiveModal.open /\ ~walletModal

\* --------------------------------------------------- useFetchAsset (12-22)
HookChains == {Ethereum, Bitcoin}
HookTokenIds == {"0xa", "0xb"}
NoTokenId == [present |-> FALSE, val |-> ""]
HookProps == [chain : HookChains, tokenId : {NoTokenId} \cup {[present |-> TRUE, val |-> t] : t \in HookTokenIds}]

\* tokenId ?? chain, line 14
AssetKey(props) == IF props.tokenId.present THEN props.tokenId.val ELSE props.chain

HookInit ==
  /\ hAssets \in SUBSET (HookChains \cup HookTokenIds)
  /\ hProps \in HookProps
  /\ hEffect = [pc |-> "scheduled", present |-> FALSE, n |-> 0]
  /\ hDispatched = <<>>

\* lines 16-19, the effect. `asset` is undefined exactly when the store lacks
\* the key; reading asset.caip19 of undefined throws a TypeError before
\* dispatch is called.
RunEffect ==
  /\ hEffect.pc = "scheduled"
  /\ LET asset == AssetKey(hProps) \in hAssets
     IN IF asset
        THEN /\ hEffect' = [pc |-> "returned", present |-> TRUE, n |-> hEffect.n + 1]
             /\ UNCHANGED hDispatched
        ELSE \* asset.caip19 with asset undefined
             /\ hEffect' = [pc |-> "threw", present |-> FALSE, n |-> hEffect.n + 1]
             /\ UNCHANGED hDispatched
  /\ UNCHANGED <<hAssets, hProps>>

\* the component renders with another argument: the dependencies changed, the
\* effect runs again
Rerender(props) ==
  /\ hEffect.pc \in {"returned", "dispatched"}
  /\ hEffect.n < MaxEffects
  /\ props # hProps
  /\ hProps' = props
  /\ hEffect' = [hEffect EXCEPT !.pc = "scheduled"]
  /\ UNCHANGED <<hAssets, hDispatched>>

\* the assets slice gains an asset (another component fetched it)
AssetAdded(k) ==
  /\ hEffect.pc \in {"returned", "dispatched"}
  /\ k \notin hAssets
  /\ hAssets' = hAssets \cup {k}
  /\ UNCHANGED <<hProps, hEffect, hDispatched>>

HookIdle ==
  /\ hAssets = {}
  /\ hProps = [chain |-> Ethereum, tokenId |-> NoTokenId]
  /\ hEffect = [pc |-> "scheduled", present |-> FALSE, n |-> 0]
  /\ hDispatched = <<>>

\* C10: once the effect has run, it has dispatched fetchAsset for the asset
\* exactly when the store lacked it, dispatched nothing when the store had it,
\* and has not thrown.
C10_EffectFetchesMissingAsset ==
  hEffect.pc # "scheduled" =>
    /\ hEffect.pc # "threw"
    /\ hEffect.present => hEffect.pc = "returned"
    /\ ~hEffect.present => hEffect.pc = "dispatched"

vars == <<normVars, fetchVars, selVars, uiVars, hookVars>>

\* ---------------------------------------------------- specifications
\* Each specification runs one part of the file; the rest of the state idles.
InitNormalizer == NormInit /\ FetchInit /\ SelIdle /\ UiIdle /\ HookIdle
NextNormalizer == Normalize /\ UNCHANGED <<fetchVars, selVars, uiVars, hookVars>>
SpecNormalizer == InitNormalizer /\ [][NextNormalizer]_vars

InitFetch == NormIdle /\ FetchInit /\ SelIdle /\ UiIdle /\ HookIdle
NextFetch ==
  \/ \E pubkeys \in PubkeyMaps :
       Initiate(pubkeys) /\ UNCHANGED <<normVars, selVars, uiVars, hookVars>>
  \/ \E e \in Entries : \E i \in 1..Len(qArg[e]) :
       \E outcome \in {Rejected} \cup {Fulfilled(a) : a \in Responses(qArg[e][i])} :
         Settle(e, i, outcome) /\ UNCHANGED <<normVars, selVars, uiVars, hookVars>>
  \/ \E e \in Entries :
       QueryFnReturn(e) /\ UNCHANGED <<normVars, selVars, uiVars, hookVars>>
  \/ \E e \in Entries :
       CacheEntryHandler(e) /\ UNCHANGED <<normVars, selVars, uiVars, hookVars>>
  \/ \E e \in Entries :
       OnReconnect(e) /\ UNCHANGED <<normVars, selVars, uiVars, hookVars>>
  \/ ClearPortfolio /\ UNCHANGED <<normVars, selVars, uiVars, hookVars>>
SpecFetch == InitFetch /\ [][NextFetch]_vars

InitSelectors == NormIdle /\ FetchInit /\ SelInit /\ UiIdle /\ HookIdle
NextSelectors ==
  \/ CallSelectTotalFiatBalance /\ UNCHANGED <<normVars, fetchVars, uiVars, hookVars>>
  \/ \E id \in SelAssetIds :
       CallSelectAssetFiatBalance(id) /\ UNCHANGED <<normVars, fetchVars, uiVars, hookVars>>
SpecSelectors == InitSelectors /\ [][NextSelectors]_vars

InitAssetActions == NormIdle /\ FetchInit /\ SelIdle /\ UiInit /\ HookIdle
NextAssetActions ==
  \/ \E assetId \in UiAssetIds, accountId \in UiAccountIds :
       handleSendClick(assetId, accountId)
         /\ UNCHANGED <<normVars, fetchVars, selVars, hookVars>>
  \/ \E assetId \in UiAssetIds, accountId \in UiAccountIds :
       handleReceiveClick(assetId, accountId)
         /\ UNCHANGED <<normVars, fetchVars, selVars, hookVars>>
  \/ \E b \in BOOLEAN :
       SetIsConnected(b) /\ UNCHANGED <<normVars, fetchVars, selVars, hookVars>>
  \/ CloseModals /\ UNCHANGED <<normVars, fetchVars, selVars, hookVars>>
SpecAssetActions == InitAssetActions /\ [][NextAssetActions]_vars

InitHook == NormIdle /\ FetchInit /\ SelIdle /\ UiIdle /\ HookInit
NextHook ==
  \/ RunEffect /\ UNCHANGED <<normVars, fetchVars, selVars, uiVars>>
  \/ \E props \in HookProps :
       Rerender(props) /\ UNCHANGED <<normVars, fetchVars, selVars, uiVars>>
  \/ \E k \in HookChains \cup HookTokenIds :
       AssetAdded(k) /\ UNCHANGED <<normVars, fetchVars, selVars, uiVars>>
SpecHook == InitHook /\ [][NextHook]_vars

====
